---- MODULE Spec2Model ----
(***************************************************************************)
(* The LS-8 style CPU of src/cpu.py as a state machine.                    *)
(*                                                                         *)
(* The machine state is the CPU object's fields (register, memory, pc,     *)
(* fl), the text PRN has printed, and how run() stands: "running" while    *)
(* the while-loop iterates, "halted" once handle_hlt has called sys.exit,  *)
(* "raised" once an uncaught exception (an IndexError of a list access)    *)
(* has left run().  Python integers are unbounded and Python lists accept  *)
(* the indices -len..len-1, so neither registers nor addresses are reduced *)
(* modulo anything unless the code does it.                                *)
(***************************************************************************)
EXTENDS Integers, Sequences, FiniteSets, TLC

VARIABLES register, memory, pc, fl, status, output, reports, steps,
          last, prev, frames

vars == <<register, memory, pc, fl, status, output, reports, steps,
          last, prev, frames>>

(***************************************************************************)
(* Bounds of the model.                                                    *)
(***************************************************************************)
\* the number of loop iterations of run() that are explored
MaxSteps == 12

(***************************************************************************)
(* Opcode constants, cpu.py lines 6-23.                                    *)
(***************************************************************************)
POP  == \b01000110
PUSH == \b01000101
CALL == \b01010000
RET  == \b00010001
JMP  == \b01010100
JNE  == \b01010110
JEQ  == \b01010101
ADD  == \b10100000
MUL  == \b10100010
CMP  == \b10100111
HLT  == \b00000001
LDI  == \b10000010
PRN  == \b01000111

\* the keys of self.branchtable
branchtable == {HLT, LDI, PRN, MUL, ADD, CMP, PUSH, POP, CALL, RET, JMP, JNE, JEQ}

\* len(self.register), len(self.memory), self.sp and its initial content
NumRegisters == 8
MemorySize == 256
sp == 7
StackTop == 244

(***************************************************************************)
(* Python list access: index i of a list of length n is valid for          *)
(* -n <= i < n and a negative index counts from the end.                   *)
(***************************************************************************)
ValidIndex(i, n) == i >= -n /\ i < n

At(i, n) == i % n

RegOk(r) == ValidIndex(r, NumRegisters)

Reg(r) == At(r, NumRegisters)

AddrOk(a) == ValidIndex(a, MemorySize)

Addr(a) == At(a, MemorySize)

\* ram_read, for a valid address
ram_read(m, address) == m.memory[Addr(address)]

\* an uncaught exception leaves run(); what was assigned before it stays
Raise(m) == [m EXCEPT !.status = "raised"]

Raised(m) == m.status = "raised"

(***************************************************************************)
(* The handlers.  m is the CPU (a record of its fields), operands the list *)
(* run() built; operands[1] is Python's operands[0].                       *)
(***************************************************************************)
\* faulty variant: only "self.running = False", which the loop's local never sees
handle_hlt_flag_only(m, operands) == m

handle_hlt(m, operands) == [m EXCEPT !.status = "halted"]

\* faulty variant: LDI advances past one operand only
handle_ldi_short(m, operands) ==
    IF ~RegOk(operands[1]) THEN Raise(m)
    ELSE [m EXCEPT !.register[Reg(operands[1])] = operands[2],
                   !.pc = @ + 2]

handle_ldi(m, operands) ==
    IF ~RegOk(operands[1]) THEN Raise(m)
    ELSE [m EXCEPT !.register[Reg(operands[1])] = operands[2],
                   !.pc = @ + 3]

\* faulty variant: PRN prints its operand, the register's number
handle_prn_prints_index(m, operands) ==
    IF ~RegOk(operands[1]) THEN Raise(m)
    ELSE [m EXCEPT !.output = Append(@, operands[1]),
                   !.pc = @ + 2]

handle_prn(m, operands) ==
    IF ~RegOk(operands[1]) THEN Raise(m)
    ELSE [m EXCEPT !.output = Append(@, m.register[Reg(operands[1])]),
                   !.pc = @ + 2]

\* faulty variant: the Less-than and Greater-than masks exchanged
cmp_flag_swapped(x, y) ==
    IF x = y THEN \b00000001
    ELSE IF x < y THEN \b00000010
    ELSE \b00000100

\* the flag CMP stores for register contents x and y
cmp_flag(x, y) ==
    IF x = y THEN \b00000001
    ELSE IF x < y THEN \b00000100
    ELSE \b00000010

\* faulty variant: the ADD branch multiplies
alu_add_multiplies(m, op, reg_a, reg_b) ==
    IF op = "ADD" THEN
        IF ~RegOk(reg_a) \/ ~RegOk(reg_b) THEN Raise(m)
        ELSE [m EXCEPT !.register[Reg(reg_a)] = @ * m.register[Reg(reg_b)]]
    ELSE IF op = "MUL" THEN
        IF ~RegOk(reg_a) \/ ~RegOk(reg_b) THEN Raise(m)
        ELSE [m EXCEPT !.register[Reg(reg_a)] = @ * m.register[Reg(reg_b)]]
    ELSE IF op = "CMP" THEN
        IF ~RegOk(reg_a) \/ ~RegOk(reg_b) THEN Raise(m)
        ELSE [m EXCEPT !.fl = cmp_flag(m.register[Reg(reg_a)],
                                       m.register[Reg(reg_b)])]
    ELSE Raise(m)

\* faulty variant: CMP sets its flag without clearing the others (fl |= flag)
alu_flags_accumulate(m, op, reg_a, reg_b) ==
    IF op = "ADD" THEN
        IF ~RegOk(reg_a) \/ ~RegOk(reg_b) THEN Raise(m)
        ELSE [m EXCEPT !.register[Reg(reg_a)] = @ + m.register[Reg(reg_b)]]
    ELSE IF op = "MUL" THEN
        IF ~RegOk(reg_a) \/ ~RegOk(reg_b) THEN Raise(m)
        ELSE [m EXCEPT !.register[Reg(reg_a)] = @ * m.register[Reg(reg_b)]]
    ELSE IF op = "CMP" THEN
        IF ~RegOk(reg_a) \/ ~RegOk(reg_b) THEN Raise(m)
        ELSE LET f == cmp_flag(m.register[Reg(reg_a)], m.register[Reg(reg_b)])
             IN  [m EXCEPT !.fl = IF (@ \div f) % 2 = 1 THEN @ ELSE @ + f]
    ELSE Raise(m)

alu(m, op, reg_a, reg_b) ==
    IF op = "ADD" THEN
        IF ~RegOk(reg_a) \/ ~RegOk(reg_b) THEN Raise(m)
        ELSE [m EXCEPT !.register[Reg(reg_a)] = @ + m.register[Reg(reg_b)]]
    ELSE IF op = "MUL" THEN
        IF ~RegOk(reg_a) \/ ~RegOk(reg_b) THEN Raise(m)
        ELSE [m EXCEPT !.register[Reg(reg_a)] = @ * m.register[Reg(reg_b)]]
    ELSE IF op = "CMP" THEN
        IF ~RegOk(reg_a) \/ ~RegOk(reg_b) THEN Raise(m)
        ELSE [m EXCEPT !.fl = cmp_flag(m.register[Reg(reg_a)],
                                       m.register[Reg(reg_b)])]
    ELSE Raise(m)

\* "self.pc += n" after a call that may have raised
Advance(m, n) == IF Raised(m) THEN m ELSE [m EXCEPT !.pc = @ + n]

handle_mul(m, operands) == Advance(alu(m, "MUL", operands[1], operands[2]), 3)

\* faulty variant: ADD resets the flags
handle_add_clears_flags(m, operands) ==
    Advance([alu(m, "ADD", operands[1], operands[2]) EXCEPT !.fl = 0], 3)

handle_add(m, operands) == Advance(alu(m, "ADD", operands[1], operands[2]), 3)

handle_cmp(m, operands) == Advance(alu(m, "CMP", operands[1], operands[2]), 3)

\* faulty variant: the value is stored before the stack pointer is decremented
push_post_decrement(m, operands) ==
    IF ~AddrOk(m.pc + 1) THEN Raise(m)
    ELSE LET reg_num == ram_read(m, m.pc + 1)
         IN  IF ~RegOk(reg_num) THEN Raise(m)
             ELSE IF ~AddrOk(m.register[sp]) THEN Raise(m)
             ELSE [m EXCEPT !.memory[Addr(m.register[sp])] =
                                 m.register[Reg(reg_num)],
                            !.register[sp] = @ - 1,
                            !.pc = @ + 2]

push(m, operands) ==
    LET m1 == [m EXCEPT !.register[sp] = @ - 1]
    IN  IF ~AddrOk(m1.pc + 1) THEN Raise(m1)
        ELSE LET reg_num == ram_read(m1, m1.pc + 1)
             IN  IF ~RegOk(reg_num) THEN Raise(m1)
                 ELSE IF ~AddrOk(m1.register[sp]) THEN Raise(m1)
                 ELSE [m1 EXCEPT !.memory[Addr(m1.register[sp])] =
                                      m1.register[Reg(reg_num)],
                                 !.pc = @ + 2]

pop(m, operands) ==
    IF ~AddrOk(m.register[sp]) THEN Raise(m)
    ELSE IF ~AddrOk(m.pc + 1) THEN Raise(m)
    ELSE LET val == ram_read(m, m.register[sp])
             reg_num == ram_read(m, m.pc + 1)
         IN  IF ~RegOk(reg_num) THEN Raise(m)
             ELSE LET m1 == [m EXCEPT !.register[Reg(reg_num)] = val]
                  IN  [m1 EXCEPT !.register[sp] = @ + 1,
                                 !.pc = @ + 2]

\* faulty variant: the return address is the operand byte of the CALL
call_return_to_operand(m, operands) ==
    LET m1 == [m EXCEPT !.register[sp] = @ - 1]
    IN  IF ~AddrOk(m1.register[sp]) THEN Raise(m1)
        ELSE LET m2 == [m1 EXCEPT !.memory[Addr(m1.register[sp])] = m1.pc + 1]
             IN  IF ~AddrOk(m2.pc + 1) THEN Raise(m2)
                 ELSE LET reg_num == ram_read(m2, m2.pc + 1)
                      IN  IF ~RegOk(reg_num) THEN Raise(m2)
                          ELSE [m2 EXCEPT !.pc = m2.register[Reg(reg_num)]]

call(m, operands) ==
    LET m1 == [m EXCEPT !.register[sp] = @ - 1]
    IN  IF ~AddrOk(m1.register[sp]) THEN Raise(m1)
        ELSE LET m2 == [m1 EXCEPT !.memory[Addr(m1.register[sp])] = m1.pc + 2]
             IN  IF ~AddrOk(m2.pc + 1) THEN Raise(m2)
                 ELSE LET reg_num == ram_read(m2, m2.pc + 1)
                      IN  IF ~RegOk(reg_num) THEN Raise(m2)
                          ELSE [m2 EXCEPT !.pc = m2.register[Reg(reg_num)]]

ret(m, operands) ==
    IF ~AddrOk(m.register[sp]) THEN Raise(m)
    ELSE [m EXCEPT !.pc = ram_read(m, m.register[sp]),
                   !.register[sp] = @ + 1]

jmp(m, operands) ==
    IF ~RegOk(operands[1]) THEN Raise(m)
    ELSE [m EXCEPT !.pc = m.register[Reg(operands[1])]]

\* fl & 0b00000001; jne and jeq compare it with "is 0" and "is 1", which for
\* these small integers is equality
EqualBit(f) == f % 2

\* faulty variant: JNE tests for the Equal bit set, as JEQ does
jne_as_jeq(m, operands) ==
    IF EqualBit(m.fl) = 1 THEN
        IF ~RegOk(operands[1]) THEN Raise(m)
        ELSE [m EXCEPT !.pc = m.register[Reg(operands[1])]]
    ELSE [m EXCEPT !.pc = @ + 2]

jne(m, operands) ==
    IF EqualBit(m.fl) = 0 THEN
        IF ~RegOk(operands[1]) THEN Raise(m)
        ELSE [m EXCEPT !.pc = m.register[Reg(operands[1])]]
    ELSE [m EXCEPT !.pc = @ + 2]

jeq(m, operands) ==
    IF EqualBit(m.fl) = 1 THEN
        IF ~RegOk(operands[1]) THEN Raise(m)
        ELSE [m EXCEPT !.pc = m.register[Reg(operands[1])]]
    ELSE [m EXCEPT !.pc = @ + 2]

(***************************************************************************)
(* run(): fetch and decode.                                                *)
(***************************************************************************)
\* (ir >> 6) & 0b00000011
operand_count(ir) == (ir \div 64) % 4

\* the number of operand bytes the handler of op reads: operands[0] and
\* operands[1], or memory[pc + 1]
operands_used(op) ==
    IF op \in {LDI, MUL, ADD, CMP} THEN 2
    ELSE IF op \in {PRN, PUSH, POP, CALL, JMP, JNE, JEQ} THEN 1
    ELSE 0

\* the reads of one loop iteration all succeed
FetchOk(m) ==
    /\ AddrOk(m.pc)
    /\ \A i \in 1..operand_count(ram_read(m, m.pc)) : AddrOk(m.pc + i)

Fetched(m) == ram_read(m, m.pc)

Operands(m) ==
    [i \in 1..operand_count(Fetched(m)) |-> ram_read(m, m.pc + i)]

\* faulty variant: the unknown opcode is skipped
not_found_skip(m) == [m EXCEPT !.reports = @ + 1, !.pc = @ + 1]

\* faulty variant: the unknown opcode ends the run, sys.exit as in handle_hlt
not_found_exit(m) == [m EXCEPT !.reports = @ + 1, !.status = "halted"]

\* the else branch of the dispatch: print("Instruction not found!")
not_found(m) == [m EXCEPT !.reports = @ + 1]

(***************************************************************************)
(* Program images.  load() writes the bytes of the image to memory from    *)
(* address 0 on; the cells after the image keep the 0 of the constructor.  *)
(***************************************************************************)
Zeros(n) == [i \in 1..n |-> 0]

\* image p, zero-filled so that the next byte lands on address n
PadTo(p, n) == p \o Zeros(n - Len(p))

Ins0(op) == <<op>>

Ins1(op, a) == <<op, a>>

Ins2(op, a, b) == <<op, a, b>>

Vals == {0, 1, 2, 128, 200, 255}

\* LDI a,x; LDI b,y; <alu op> a,b; PRN a; HLT
AluPrograms ==
    { Ins2(LDI, a, x) \o Ins2(LDI, b, y) \o Ins2(op, a, b)
        \o Ins1(PRN, a) \o Ins0(HLT) :
      <<a, b, x, y, op>> \in {0, 1, 7} \X {0, 1, 7} \X Vals \X Vals
                              \X {ADD, MUL, CMP} }

\* LDI R7,s; LDI r,v; PUSH r; POP q; PRN q; HLT
StackPrograms ==
    { Ins2(LDI, 7, s) \o Ins2(LDI, r, v) \o Ins1(PUSH, r) \o Ins1(POP, q)
        \o Ins1(PRN, q) \o Ins0(HLT) :
      <<s, r, q, v>> \in {0, 9, 10, 244, 255} \X {0, 1, 7} \X {0, 1, 7}
                           \X {0, 7, 70, 200} }

\* [CMP a,b;] LDI j,20; <jump> j; PRN a; HLT; ... 20: PRN b; HLT
JumpPrograms ==
    { Ins2(LDI, 0, x) \o Ins2(LDI, 1, y) \o c \o Ins2(LDI, j, 20)
        \o Ins1(op, j) \o Ins1(PRN, 0) \o PadTo(Ins0(HLT), 20 - 16 - Len(c) + 3)
        \o Ins1(PRN, 1) \o Ins0(HLT) :
      <<x, y, c, j, op>> \in {0, 1, 200} \X {0, 1, 200}
                             \X {<<>>, Ins2(CMP, 0, 1), Ins2(CMP, 1, 0)}
                             \X {2, 7} \X {JMP, JEQ, JNE} }

\* subroutine bodies: balanced, unbalanced, stack pointer overwritten, nested
Bodies ==
    { <<>>,
      Ins2(LDI, 0, 5),
      Ins1(PUSH, 0) \o Ins1(POP, 2),
      Ins1(PUSH, 0) \o Ins1(PUSH, 1) \o Ins1(POP, 2) \o Ins1(POP, 3),
      Ins1(PUSH, 0),
      Ins1(POP, 0),
      Ins1(POP, 0) \o Ins1(PUSH, 0),
      Ins2(LDI, 7, 100),
      Ins2(LDI, 6, 1) \o Ins2(ADD, 7, 6),
      Ins1(POP, 7),
      Ins2(LDI, 3, 30) \o Ins1(CALL, 3),
      Ins1(PUSH, 0) \o Ins2(LDI, 3, 30) \o Ins1(CALL, 3) \o Ins1(POP, 2),
      Ins2(LDI, 3, 32) \o Ins1(CALL, 3),
      Ins2(LDI, 3, 35) \o Ins1(CALL, 3) }

\* LDI R7,s; LDI r,11; CALL r; PRN R0; HLT; 11: body; RET;
\* 30: RET; 32: PUSH R0; RET; 35: LDI R0,9; PUSH R0; POP R1; RET
CallPrograms ==
    { Ins2(LDI, 7, s) \o Ins2(LDI, r, 11) \o Ins1(CALL, r) \o Ins1(PRN, 0)
        \o Ins0(HLT) \o PadTo(b \o Ins0(RET), 30 - 11)
        \o Ins0(RET) \o <<0>> \o Ins1(PUSH, 0) \o Ins0(RET)
        \o Ins2(LDI, 0, 9) \o Ins1(PUSH, 0) \o Ins1(POP, 1) \o Ins0(RET) :
      <<s, r, b>> \in {0, 1, 8, 9, 244} \X {1, 7} \X Bodies }

\* LDI R1,254; LDI R2,8; JMP R1; 8: RET; ... 254: CALL R2
EdgeCallProgram ==
    PadTo(Ins2(LDI, 1, 254) \o Ins2(LDI, 2, 8) \o Ins1(JMP, 1) \o Ins0(RET), 254)
        \o Ins1(CALL, 2)

\* LDI R1,t; JMP R1; ... t: u   (u an opcode without a handler)
UnknownPrograms ==
    { PadTo(Ins2(LDI, 1, t) \o Ins1(JMP, 1), t) \o <<u>> :
      <<t, u>> \in {5, 253, 254, 255} \X {0, 2, 64, 128, 192, 255} }

\* list accesses out of range, and loops that never halt
OtherPrograms ==
    { Ins2(LDI, 8, 1), Ins1(PRN, 9), Ins2(ADD, 8, 0), Ins2(ADD, 0, 8),
      Ins2(MUL, 0, 8), Ins2(CMP, 9, 9), Ins1(PUSH, 8), Ins1(POP, 8),
      Ins1(CALL, 8), Ins1(JMP, 8), Ins1(JEQ, 8), Ins1(JNE, 8),
      Ins2(LDI, 7, 200) \o Ins2(ADD, 7, 7) \o Ins1(PUSH, 0),
      Ins2(LDI, 7, 200) \o Ins2(ADD, 7, 7) \o Ins1(POP, 0),
      Ins2(LDI, 7, 200) \o Ins2(ADD, 7, 7) \o Ins1(CALL, 0),
      Ins2(LDI, 7, 200) \o Ins2(ADD, 7, 7) \o Ins0(RET),
      Ins2(LDI, 0, 200) \o Ins2(ADD, 0, 0) \o Ins1(JMP, 0),
      Ins2(LDI, 7, 0) \o Ins1(PUSH, 7) \o Ins1(POP, 0) \o Ins1(JMP, 0),
      Ins2(LDI, 0, 2) \o Ins2(LDI, 1, 3) \o Ins2(MUL, 0, 0) \o Ins1(PRN, 0)
          \o Ins1(JMP, 1),
      Ins2(LDI, 0, 0) \o Ins1(PUSH, 0) \o Ins1(JMP, 0),
      Ins2(LDI, 7, 5) \o Ins1(CALL, 1),
      Ins2(LDI, 7, 255) \o Ins1(POP, 0) \o Ins0(HLT),
      Ins2(LDI, 7, 255) \o Ins0(RET),
      Ins2(LDI, 7, 0) \o Ins1(CALL, 0),
      Ins2(LDI, 7, 5) \o Ins1(PUSH, 1) \o Ins0(HLT),
      Ins2(LDI, 0, 200) \o Ins2(ADD, 0, 0) \o Ins1(PUSH, 0) \o Ins0(HLT),
      Ins0(RET),
      Ins0(HLT),
      <<>> }

\* instructions of every kind after a CMP has set a flag
FlagPrograms ==
    { Ins2(LDI, 0, 1) \o Ins2(LDI, 1, 2) \o Ins2(CMP, 0, 1) \o Ins2(ADD, 0, 1)
          \o Ins2(CMP, 0, 1) \o Ins2(MUL, 0, 1) \o Ins1(PUSH, 0) \o Ins1(POP, 1)
          \o Ins2(CMP, 0, 1) \o Ins1(PRN, 0) \o Ins0(HLT),
      Ins2(LDI, 1, 2) \o Ins2(CMP, 0, 1) \o Ins2(LDI, 2, 14) \o Ins1(CALL, 2)
          \o Ins1(JEQ, 2) \o Ins0(HLT) \o Ins0(RET),
      Ins2(LDI, 1, 2) \o Ins2(CMP, 0, 1) \o <<0>>,
      Ins2(LDI, 1, 2) \o Ins2(CMP, 1, 0) \o Ins2(LDI, 8, 0),
      Ins2(LDI, 3, 200) \o Ins2(CMP, 3, 0) \o Ins2(ADD, 3, 3) \o Ins1(JMP, 3) }

\* LDI reg,imm8; PRN reg; HLT
LdiPrnPrograms ==
    { Ins2(LDI, reg, imm8) \o Ins1(PRN, reg) \o Ins0(HLT) :
      <<reg, imm8>> \in (0..7) \X (0..255) }

\* the countdown: R0 = 5; loop: PRN R0; R0 += 0xFF; CMP R0,R2 (= 0); JNE loop; HLT
CountdownProgram ==
    Ins2(LDI, 0, 5) \o Ins2(LDI, 1, 255) \o Ins2(LDI, 2, 0) \o Ins2(LDI, 3, 12)
        \o Ins1(PRN, 0) \o Ins2(ADD, 0, 1) \o Ins2(CMP, 0, 2) \o Ins1(JNE, 3)
        \o Ins0(HLT)

\* LDI R0,8; LDI R1,9; ADD R0,R1; PRN R0; HLT
AddProgram ==
    << \b10000010, \b00000000, \b00001000,
       \b10000010, \b00000001, \b00001001,
       \b10100000, \b00000000, \b00000001,
       \b01000111, \b00000000,
       \b00000001 >>

\* a CALL whose stack slot is its own operand byte: LDI R7,7; PRN R0; CALL R1
CollidingCallProgram == Ins2(LDI, 7, 7) \o Ins1(PRN, 0) \o Ins1(CALL, 1)

Programs ==
    AluPrograms \cup StackPrograms \cup JumpPrograms \cup CallPrograms
        \cup {EdgeCallProgram} \cup UnknownPrograms \cup OtherPrograms
        \cup FlagPrograms \cup LdiPrnPrograms
        \cup {CountdownProgram, AddProgram, CollidingCallProgram}

(***************************************************************************)
(* load(): the image goes to memory[0..], one byte per address.            *)
(***************************************************************************)
load_image(mem, p) ==
    [a \in 0..(MemorySize - 1) |-> IF a < Len(p) THEN p[a + 1] ELSE mem[a]]

(***************************************************************************)
(* The CPU as a record, for the handlers.                                  *)
(***************************************************************************)
Cur ==
    [register |-> register, memory |-> memory, pc |-> pc, fl |-> fl,
     status |-> status, output |-> output, reports |-> reports]

(***************************************************************************)
(* History: what the last two loop iterations started from.  kind is       *)
(* "none" before the first iteration, "exec" when a handler was called,    *)
(* "notfound" when the opcode has no handler, "fetch" when a read of       *)
(* run() itself raised.                                                    *)
(***************************************************************************)
NoFrame == [c |-> 0, sp0 |-> 0, depth |-> -1, clean |-> FALSE]

NoStep ==
    [kind |-> "none", ir |-> 0, operands |-> <<>>, pc |-> 0,
     register |-> [i \in 0..(NumRegisters - 1) |-> 0],
     memory |-> [a \in 0..(MemorySize - 1) |-> 0], fl |-> 0,
     output |-> <<>>, frame |-> NoFrame]

ThisStep(kind) ==
    [kind |-> kind,
     ir |-> IF AddrOk(pc) THEN Fetched(Cur) ELSE 0,
     operands |-> IF FetchOk(Cur) THEN Operands(Cur) ELSE <<>>,
     pc |-> pc, register |-> register, memory |-> memory, fl |-> fl,
     output |-> output,
     frame |-> IF kind = "exec" /\ Fetched(Cur) = RET /\ frames # <<>>
               THEN frames[Len(frames)] ELSE NoFrame]

(***************************************************************************)
(* The calls in progress: for every CALL not yet returned from, its        *)
(* address c, the stack pointer sp0 before it, the number of values pushed *)
(* and not yet popped since (depth), and whether the stack discipline was  *)
(* kept since (clean): no pop below the return address, no write to the    *)
(* stack pointer other than by PUSH/POP/CALL/RET, no write to the cell     *)
(* holding the return address, every inner call returned cleanly.          *)
(***************************************************************************)
Dirty(fs) == [i \in 1..Len(fs) |-> [fs[i] EXCEPT !.clean = FALSE]]

DirtyAt(fs, slot) ==
    [i \in 1..Len(fs) |->
        IF Addr(fs[i].sp0 - 1) = slot THEN [fs[i] EXCEPT !.clean = FALSE]
        ELSE fs[i]]

TopDepth(fs, d) ==
    IF fs = <<>> THEN fs ELSE [fs EXCEPT ![Len(fs)].depth = @ + d]

Track(m) ==
    LET ir == Fetched(Cur)
        op1 == Operands(Cur)[1]
        slot == Addr(register[sp] - 1)
    IN  IF Raised(m) THEN frames
        ELSE IF ir \in {LDI, ADD, MUL} THEN
            IF Reg(op1) = sp THEN Dirty(frames) ELSE frames
        ELSE IF ir = PUSH THEN TopDepth(DirtyAt(frames, slot), 1)
        ELSE IF ir = POP THEN
            IF frames = <<>> THEN frames
            ELSE IF Reg(op1) = sp \/ frames[Len(frames)].depth = 0
                 THEN Dirty(frames)
                 ELSE TopDepth(frames, -1)
        ELSE IF ir = CALL THEN
            Append(DirtyAt(frames, slot),
                   [c |-> pc, sp0 |-> register[sp], depth |-> 0, clean |-> TRUE])
        ELSE IF ir = RET THEN
            IF frames = <<>> THEN frames
            ELSE LET top == frames[Len(frames)]
                     rest == SubSeq(frames, 1, Len(frames) - 1)
                 IN  IF top.clean /\ top.depth = 0 THEN rest ELSE Dirty(rest)
        ELSE frames

(***************************************************************************)
(* One iteration of the while-loop of run().                               *)
(***************************************************************************)
Running == status = "running" /\ steps < MaxSteps

Commit(m, kind) ==
    /\ register' = m.register
    /\ memory' = m.memory
    /\ pc' = m.pc
    /\ fl' = m.fl
    /\ status' = m.status
    /\ output' = m.output
    /\ reports' = m.reports
    /\ steps' = steps + 1
    /\ prev' = last
    /\ last' = ThisStep(kind)
    /\ frames' = IF kind = "exec" THEN Track(m) ELSE frames

Dispatch(op) == Running /\ FetchOk(Cur) /\ Fetched(Cur) = op

run_hlt == Dispatch(HLT) /\ Commit(handle_hlt(Cur, Operands(Cur)), "exec")

run_ldi == Dispatch(LDI) /\ Commit(handle_ldi(Cur, Operands(Cur)), "exec")

run_prn == Dispatch(PRN) /\ Commit(handle_prn(Cur, Operands(Cur)), "exec")

run_mul == Dispatch(MUL) /\ Commit(handle_mul(Cur, Operands(Cur)), "exec")

run_add == Dispatch(ADD) /\ Commit(handle_add(Cur, Operands(Cur)), "exec")

run_cmp == Dispatch(CMP) /\ Commit(handle_cmp(Cur, Operands(Cur)), "exec")

run_push == Dispatch(PUSH) /\ Commit(push(Cur, Operands(Cur)), "exec")

run_pop == Dispatch(POP) /\ Commit(pop(Cur, Operands(Cur)), "exec")

run_call == Dispatch(CALL) /\ Commit(call(Cur, Operands(Cur)), "exec")

run_ret == Dispatch(RET) /\ Commit(ret(Cur, Operands(Cur)), "exec")

run_jmp == Dispatch(JMP) /\ Commit(jmp(Cur, Operands(Cur)), "exec")

run_jne == Dispatch(JNE) /\ Commit(jne(Cur, Operands(Cur)), "exec")

run_jeq == Dispatch(JEQ) /\ Commit(jeq(Cur, Operands(Cur)), "exec")

\* the opcode has no handler
run_not_found ==
    /\ Running
    /\ FetchOk(Cur)
    /\ Fetched(Cur) \notin branchtable
    /\ Commit(not_found(Cur), "notfound")

\* ram_read(self.pc) or ram_read(self.pc + i) raises IndexError
run_fetch_error ==
    /\ Running
    /\ ~FetchOk(Cur)
    /\ Commit(Raise(Cur), "fetch")

\* cpu.load() followed by cpu.run(), on a newly constructed CPU
load ==
    /\ status = "constructed"
    /\ \E p \in Programs : memory' = load_image(memory, p)
    /\ status' = "running"
    /\ UNCHANGED <<register, pc, fl, output, reports, steps, last, prev, frames>>

\* CPU.__init__
Init ==
    /\ register = [i \in 0..(NumRegisters - 1) |-> IF i = sp THEN StackTop ELSE 0]
    /\ memory = [a \in 0..(MemorySize - 1) |-> 0]
    /\ pc = 0
    /\ fl = 0
    /\ status = "constructed"
    /\ output = <<>>
    /\ reports = 0
    /\ steps = 0
    /\ last = NoStep
    /\ prev = NoStep
    /\ frames = <<>>

Next ==
    \/ load
    \/ run_hlt
    \/ run_ldi
    \/ run_prn
    \/ run_mul
    \/ run_add
    \/ run_cmp
    \/ run_push
    \/ run_pop
    \/ run_call
    \/ run_ret
    \/ run_jmp
    \/ run_jne
    \/ run_jeq
    \/ run_not_found
    \/ run_fetch_error

Spec == Init /\ [][Next]_vars

(***************************************************************************)
(* Vocabulary of the claims.                                               *)
(***************************************************************************)
\* the last loop iteration called the handler of op and the handler returned
\* (or, for HLT, exited) without raising
Executed(op) == last.kind = "exec" /\ last.ir = op /\ status # "raised"

\* the same, one iteration earlier
ExecutedBefore(op) == prev.kind = "exec" /\ prev.ir = op

\* the register operands of the last and of the previous instruction
RegA == Reg(last.operands[1])

RegB == Reg(last.operands[2])

PrevRegA == Reg(prev.operands[1])

\* an unsigned 8-bit value
Byte == 0..255

(***************************************************************************)
(* C1.  Wraparound law: ADD a b leaves register[a] = (old register[a] +    *)
(* old register[b]) mod 256, MUL a b leaves register[a] = (old register[a] *)
(* * old register[b]) mod 256, and both advance PC by 3.                   *)
(* The code adds and multiplies Python integers and never reduces them.    *)
(***************************************************************************)
C1_WraparoundLaw ==
    /\ Executed(ADD) =>
          /\ register[RegA] = (last.register[RegA] + last.register[RegB]) % 256
          /\ pc = last.pc + 3
    /\ Executed(MUL) =>
          /\ register[RegA] = (last.register[RegA] * last.register[RegB]) % 256
          /\ pc = last.pc + 3

(***************************************************************************)
(* C2.  In every reachable state every register, the stack pointer R7      *)
(* included, holds a value in 0..255.                                      *)
(* The code lets a sum or product exceed 255 and lets the stack pointer    *)
(* fall to -1 (PUSH/CALL at SP = 0) or rise to 256 (POP/RET at SP = 255).  *)
(***************************************************************************)
C2_RegistersAreBytes == \A i \in 0..(NumRegisters - 1) : register[i] \in Byte

(***************************************************************************)
(* C3.  Stack round-trip as claimed: for every r, r' in 0..7, PUSH r       *)
(* immediately followed by POP r' yields register[r'] = v, the value       *)
(* register[r] held before the PUSH, and SP equal to its value before the  *)
(* PUSH.  Fails when exactly one of r, r' is the stack pointer register.   *)
(***************************************************************************)
PushThenPop == Executed(POP) /\ ExecutedBefore(PUSH)

RoundTrip ==
    /\ register[RegA] = prev.register[PrevRegA]
    /\ register[sp] = prev.register[sp]

C3_StackRoundTripAnyRegister == PushThenPop => RoundTrip

(***************************************************************************)
(* C3, amended.  For r, r' both in 0..6, and for r = r' = 7, PUSH r        *)
(* immediately followed by POP r' yields register[r'] = v and SP equal to  *)
(* its value before the PUSH.                                              *)
(***************************************************************************)
C3_StackRoundTrip ==
    PushThenPop /\ ((PrevRegA # sp /\ RegA # sp) \/ (PrevRegA = sp /\ RegA = sp))
        => RoundTrip

C3_Witness ==
    /\ PushThenPop
    /\ PrevRegA = 0
    /\ RegA = 1
    /\ prev.register[0] = 200
    /\ register[1] = 200
    /\ prev.register[sp] = 0
    /\ register[sp] = 0

(***************************************************************************)
(* C4.  After CMP a b, FL is exactly one flag: 0b001 iff register[a] =     *)
(* register[b], 0b100 iff register[a] < register[b], 0b010 iff             *)
(* register[a] > register[b]; no register changes; CMP a a sets Equal.     *)
(***************************************************************************)
C4_CmpSetsOneFlag ==
    Executed(CMP) =>
        LET x == last.register[RegA]
            y == last.register[RegB]
        IN  /\ fl \in {1, 2, 4}
            /\ fl = 1 <=> x = y
            /\ fl = 4 <=> x < y
            /\ fl = 2 <=> x > y
            /\ RegA = RegB => fl = 1
            /\ register = last.register

C4_Witness ==
    /\ Executed(CMP)
    /\ last.register[RegA] = 1
    /\ last.register[RegB] = 200
    /\ last.fl = 0
    /\ fl = 4

(***************************************************************************)
(* C5.  JEQ r sets PC to register[r] when the Equal bit is set and else    *)
(* advances PC by 2; JNE r sets PC to register[r] when the Equal bit is    *)
(* clear and else advances PC by 2; JMP r sets PC to register[r]; none of  *)
(* the three changes a register, a memory cell or FL.                      *)
(***************************************************************************)
C5_ConditionalJumps ==
    /\ Executed(JEQ) =>
          pc = IF EqualBit(last.fl) = 1 THEN last.register[RegA] ELSE last.pc + 2
    /\ Executed(JNE) =>
          pc = IF EqualBit(last.fl) = 0 THEN last.register[RegA] ELSE last.pc + 2
    /\ Executed(JMP) => pc = last.register[RegA]
    /\ Executed(JEQ) \/ Executed(JNE) \/ Executed(JMP) =>
          /\ register = last.register
          /\ memory = last.memory
          /\ fl = last.fl

C5_Witness ==
    /\ Executed(JNE)
    /\ ExecutedBefore(LDI)
    /\ last.fl = 1
    /\ last.register[RegA] = 20
    /\ pc = last.pc + 2

(***************************************************************************)
(* C6.  CALL/RET round-trip: when CALL r was executed at address c and the *)
(* code called reaches its RET with the stack discipline kept (every PUSH  *)
(* matched by a POP, the return address not written over, see frames),     *)
(* then after that RET PC = c + 2 and SP is what it was before the CALL.   *)
(***************************************************************************)
BalancedReturn ==
    /\ Executed(RET)
    /\ last.frame.clean
    /\ last.frame.depth = 0

C6_CallRetRoundTrip ==
    BalancedReturn =>
        /\ pc = last.frame.c + 2
        /\ register[sp] = last.frame.sp0

C6_Witness ==
    /\ BalancedReturn
    /\ ExecutedBefore(POP)
    /\ last.frame.c = 6
    /\ last.frame.sp0 = 244
    /\ pc = 8
    /\ register[sp] = 244

Unrecognized == status = "running" /\ FetchOk(Cur) /\ Fetched(Cur) \notin branchtable

Taken ==
    \/ Executed(JMP)
    \/ Executed(JEQ) /\ EqualBit(last.fl) = 1
    \/ Executed(JNE) /\ EqualBit(last.fl) = 0

C10_PcAdvanceDiscipline ==
    /\ \A op \in branchtable : operand_count(op) = operands_used(op)
    /\ \A op \in {LDI, ADD, MUL, CMP} : Executed(op) => pc = last.pc + 3
    /\ \A op \in {PRN, PUSH, POP} : Executed(op) => pc = last.pc + 2
    /\ \A op \in {JEQ, JNE} : Executed(op) /\ ~Taken => pc = last.pc + 2
    /\ \A op \in branchtable \ {HLT, CALL, RET, JMP} :
          Executed(op) /\ ~Taken => pc = last.pc + operand_count(op) + 1
    /\ Taken => pc = last.register[RegA]
    /\ Executed(CALL) => pc = register[Reg(memory[Addr(last.pc + 1)])]
    /\ Executed(RET) => pc = last.memory[Addr(last.register[sp])]

C10_Witness ==
    /\ Executed(JEQ)
    /\ ~Taken
    /\ last.register[RegA] = 20
    /\ last.pc = 12
    /\ pc = 14

(***************************************************************************)
(* C11.  In every reachable state at most one of the Equal (bit 0),        *)
(* Greater-than (bit 1) and Less-than (bit 2) bits of FL is set and bits   *)
(* 3-7 are zero: FL is one of 0, 1, 2, 4.                                  *)
(***************************************************************************)
C11_AtMostOneFlag == fl \in {0, 1, 2, 4}

C11_Witness ==
    /\ Executed(CMP)
    /\ last.fl = 4
    /\ fl = 2
    /\ last.register[RegA] > last.register[RegB]

(***************************************************************************)
(* C12.  FL is written by CMP alone: a loop iteration that executes any    *)
(* other instruction, that finds an opcode without a handler, or that      *)
(* raises, leaves FL as it was.                                            *)
(***************************************************************************)
C12_OnlyCmpWritesFl ==
    last.kind # "none" /\ ~(last.kind = "exec" /\ last.ir = CMP) => fl = last.fl

C12_Witness ==
    /\ Executed(ADD)
    /\ ExecutedBefore(CMP)
    /\ prev.fl = 0
    /\ last.fl = 4
    /\ fl = 4

(***************************************************************************)
(* C13.  The countdown loop (R0 starts at 5, is printed, is decremented by *)
(* adding 0xFF, and CMP/JNE leave the loop when it is 0) prints exactly    *)
(* 5, 4, 3, 2, 1 in that order and then halts.                             *)
(* In the code 5 + 0xFF is 260, never 0: the loop prints 5, 260, 515, ...  *)
(* and does not halt.                                                      *)
(***************************************************************************)
ZeroMemory == [a \in 0..(MemorySize - 1) |-> 0]

IsPrefix(s, t) == Len(s) <= Len(t) /\ s = SubSeq(t, 1, Len(s))

CountdownRun == memory = load_image(ZeroMemory, CountdownProgram)

C13_CountdownOutput ==
    CountdownRun =>
        /\ IsPrefix(output, <<5, 4, 3, 2, 1>>)
        /\ status # "raised"
        /\ status = "halted" => output = <<5, 4, 3, 2, 1>>

(***************************************************************************)
(* C14.  For every reg in 0..7 and imm8 in 0..255, LDI reg imm8 followed   *)
(* by PRN reg prints exactly one value, imm8, leaves register[reg] = imm8  *)
(* and every other register, every memory cell and FL unchanged, and       *)
(* leaves PC 5 above its value before the LDI.                             *)
(***************************************************************************)
LdiThenPrn ==
    /\ Executed(PRN)
    /\ ExecutedBefore(LDI)
    /\ prev.operands[1] \in 0..7
    /\ prev.operands[2] \in Byte
    /\ last.operands[1] = prev.operands[1]

C14_LdiThenPrn ==
    LdiThenPrn =>
        /\ output = Append(prev.output, prev.operands[2])
        /\ register = [prev.register EXCEPT ![prev.operands[1]] = prev.operands[2]]
        /\ memory = prev.memory
        /\ fl = prev.fl
        /\ pc = prev.pc + 5

C14_Witness ==
    /\ LdiThenPrn
    /\ prev.operands = <<5, 173>>
    /\ prev.register[5] = 0
    /\ register[5] = 173
    /\ output = <<173>>
    /\ pc = 5

(***************************************************************************)
(* C15.  With memory[0..11] = LDI R0,8; LDI R1,9; ADD R0,R1; PRN R0; HLT   *)
(* the run prints the single value 17 and then is Halted, with PC = 11 and *)
(* SP = 0xF4: it is Halted after its fifth loop iteration, and it prints   *)
(* nothing but the 17 of the fourth.                                       *)
(***************************************************************************)
AddRun == memory = load_image(ZeroMemory, AddProgram)

C15_AddProgramPrints17 ==
    AddRun =>
        /\ status \in {"running", "halted"}
        /\ status = "running" => steps < 5
        /\ output = IF steps < 4 THEN <<>> ELSE <<17>>
        /\ status = "halted" =>
              /\ steps = 5
              /\ pc = 11
              /\ register[sp] = 244

C15_Witness ==
    /\ AddRun
    /\ status = "halted"
    /\ Executed(HLT)
    /\ output = <<17>>
    /\ pc = 11
    /\ register[sp] = 244

(***************************************************************************)
(* C16.  PUSH, POP and CALL, which read their register index from          *)
(* memory[pc + 1] inside the handler, use the index the decode step        *)
(* fetched, also when the stack slot the instruction writes is the address *)
(* pc + 1.                                                                 *)
(* push reads the index before it writes the slot and pop writes no memory *)
(* cell, but call writes the return address first and reads the index      *)
(* afterwards: with the slot at pc + 1 it reads the return address.        *)
(***************************************************************************)
\* the handler got as far as its read of memory[pc + 1]
HandlerReadRegNum ==
    /\ last.kind = "exec"
    /\ \/ last.ir = PUSH
       \/ last.ir = POP /\ AddrOk(last.register[sp])
       \/ last.ir = CALL /\ AddrOk(last.register[sp] - 1)

\* what that read returned: call reads after its write, push and pop before any
HandlerRegNum ==
    IF last.ir = CALL THEN memory[Addr(last.pc + 1)]
    ELSE last.memory[Addr(last.pc + 1)]

C16_HandlersUseDecodedOperand ==
    HandlerReadRegNum => HandlerRegNum = last.operands[1]

(***************************************************************************)
(* C17.  Memory stays a 256-cell byte array: it has exactly the cells      *)
(* 0..255 and every cell holds a value in 0..255, the cells written by     *)
(* PUSH and by CALL included.                                              *)
(* The code stores register values and return addresses unreduced: CALL at *)
(* address 254 stores 256, PUSH stores sums above 255 and a stack pointer  *)
(* of -1.                                                                  *)
(***************************************************************************)
C17_MemoryIsByteArray ==
    /\ DOMAIN memory = 0..(MemorySize - 1)
    /\ \A a \in DOMAIN memory : memory[a] \in Byte

====
